---------------------------- MODULE Spec2Model ----------------------------
(***************************************************************************)
(* The policy-wrapped step supervisor of packer's common package:          *)
(* newRunner, the basicStep / abortStep / askStep decorators with their    *)
(* bounded retry loop, the prompt arbiter (ask, askPrompt) and the cleanup *)
(* coordinator handleAbortsAndInterupts.                                   *)
(*                                                                         *)
(* One run of a pipeline of n steps is modelled.  The pipeline thread is   *)
(* at one of the control points                                            *)
(*   "exec"   the executor is at the top of its loop                       *)
(*   "first"  a decorated Run is about to make its first call of the       *)
(*            wrapped Run of a pass (line 72 / 110 / 153)                  *)
(*   "retry"  a decorated Run is inside its retry loop, about to call the  *)
(*            wrapped Run again (line 86 / 124 / 167)                      *)
(*   "ask"    ask() waits in its select (line 220)                         *)
(*   "ret"    the decorated Run has returned `loc.result` to the executor  *)
(*   "cleanup" the executor runs the deferred Cleanup calls                *)
(*   "done"   the run is over                                              *)
(* The goroutine that ask() starts, and the external interrupt, run        *)
(* concurrently with it.                                                   *)
(***************************************************************************)
EXTENDS Integers, Sequences, FiniteSets

\* ------------------------------------------------------------------ bounds
MaxSteps == 3
MaxBudget == 2
MaxOpRetries == 1
MaxBadLines == 1
MaxLineLen == 2

\* ------------------------------------------------------------- vocabulary
ActionContinue == "ActionContinue"
ActionRetry == "ActionRetry"
ActionHalt == "ActionHalt"
Actions == {ActionContinue, ActionRetry, ActionHalt}

askCleanup == "askCleanup"
askAbort == "askAbort"
askRetry == "askRetry"

\* What newRunner leaves in steps[i].
basicStep == "basicStep"
abortStep == "abortStep"
askStep == "askStep"
rawStep == "rawStep"
Decorators == {basicStep, abortStep, askStep}

\* Values of config.PackerOnError: the four the switch names and one it does not.
PolicyStrings == {"", "cleanup", "abort", "ask", "bogus"}

\* Bytes an operator may type, and the lines tried on askPrompt: every line
\* of at most MaxLineLen bytes.
Chars == {"c", "C", "a", "A", "r", "R", "x", "X"}
Lines == UNION {[1..k -> Chars] : k \in 0..MaxLineLen}

\* The lines the operator answers with during a run: one line for each case
\* of askPrompt's switch, and one that matches none.
Answers == { <<"c">>, <<"a">>, <<"r">>, <<"x">> }

VARIABLES
  policy,   \* config.PackerOnError
  n,        \* len(steps)
  steps,    \* steps[i]: the decorator newRunner put around step i
  state,    \* the StateBag: the well-known keys the supervisor reads and writes
  pc,       \* control point of the pipeline thread
  cur,      \* executor: index of the step being run
  cl,       \* executor: index of the step whose deferred Cleanup is next
  loc,      \* locals of the decorated Run in progress, and its call counters
  gor,      \* the goroutine started by ask(): askPrompt, then the channel send
  ui,       \* what has been written to the Ui so far, per kind of message
  cleaned   \* cleaned[i]: calls of the wrapped step i's own Cleanup

vars == <<policy, n, steps, state, pc, cur, cl, loc, gor, ui, cleaned>>

StepIds == 1..MaxSteps


\* ------------------------------------------------------------ newRunner
\* The switch on config.PackerOnError: no case matches an unrecognized
\* string and the switch has no default, so the steps stay unwrapped.
WrapKind(p) ==
  CASE p \in {"", "cleanup"} -> basicStep
    [] p = "abort" -> abortStep
    [] p = "ask" -> askStep
    [] OTHER -> rawStep

newRunner(p, len) == [i \in 1..len |-> WrapKind(p)]

\* ------------------------------------------------------------ retry loop
\* maxRetries := 0; if times, ok := state.GetOk("steps_max_retry"); ok { ... }
MaxRetriesOf(st) == IF st.hasRetry THEN st.retry ELSE 0

\* Mutants of the loop condition: one retry too many, one too few.
ShouldRetry_OneMore(action, retries, maxRetries) ==
  action = ActionRetry /\ retries <= maxRetries

ShouldRetry_OneLess(action, retries, maxRetries) ==
  action = ActionRetry /\ retries + 1 < maxRetries

\* for action == multistep.ActionRetry && retries < maxRetries
ShouldRetry(action, retries, maxRetries) ==
  action = ActionRetry /\ retries < maxRetries

\* Mutant: the action the loop ended with is passed on as it is.
AfterLoop_Keep(action) == action

\* What basicStep.Run and abortStep.Run return once the loop is left:
\* return multistep.ActionHalt (askStep.Run: action = multistep.ActionHalt).
AfterLoop(action) == ActionHalt

\* ------------------------------------------------------------ askPrompt
ToLowerByte(ch) ==
  CASE ch = "C" -> "c"
    [] ch = "A" -> "a"
    [] ch = "R" -> "r"
    [] ch = "X" -> "x"
    [] OTHER -> ch

ToLower(line) == [i \in 1..Len(line) |-> ToLowerByte(line[i])]

\* Mutant: the line is not lower-cased.
FirstByte_NoLower(line) == (line \o <<"c">>)[1]

\* input := strings.ToLower(line) + "c";  input[0]
FirstByte(line) == (ToLower(line) \o <<"c">>)[1]

\* The switch on input[0]; "none" when no case matches and the loop goes on.
askPromptOutcome(line) ==
  CASE FirstByte(line) = "c" -> askCleanup
    [] FirstByte(line) = "a" -> askAbort
    [] FirstByte(line) = "r" -> askRetry
    [] OTHER -> "none"

\* ------------------------------------------------- handleAbortsAndInterupts
\* Mutant: the first call that finds the run halted lets the cleanup run.
handleAbortsAndInterupts_FirstRuns(st) ==
  LET alreadyLogged == st.logged
      showErr == st.error /\ ~alreadyLogged
      st1 == IF showErr THEN [st EXCEPT !.logged = TRUE] ELSE st
      st2 == IF ~alreadyLogged THEN [st1 EXCEPT !.logged = TRUE] ELSE st1
      first == IF alreadyLogged THEN 0 ELSE 1
  IN  IF st1.cancelled
        THEN [ok |-> FALSE, st |-> st2, err |-> IF showErr THEN 1 ELSE 0,
              intr |-> first, fail |-> 0, skip |-> 1 - first]
      ELSE IF st1.halted
        THEN [ok |-> ~alreadyLogged, st |-> st2, err |-> IF showErr THEN 1 ELSE 0,
              intr |-> 0, fail |-> first, skip |-> 1 - first]
      ELSE [ok |-> TRUE, st |-> st1, err |-> IF showErr THEN 1 ELSE 0,
            intr |-> 0, fail |-> 0, skip |-> 0]

\* Mutant: abort_step_logged is read again after the error was logged.
handleAbortsAndInterupts_Reread(st) ==
  LET showErr == st.error /\ ~st.logged
      st1 == IF showErr THEN [st EXCEPT !.logged = TRUE] ELSE st
      alreadyLogged == st1.logged
      st2 == IF ~alreadyLogged THEN [st1 EXCEPT !.logged = TRUE] ELSE st1
      first == IF alreadyLogged THEN 0 ELSE 1
  IN  IF st1.cancelled
        THEN [ok |-> FALSE, st |-> st2, err |-> IF showErr THEN 1 ELSE 0,
              intr |-> first, fail |-> 0, skip |-> 1 - first]
      ELSE IF st1.halted
        THEN [ok |-> FALSE, st |-> st2, err |-> IF showErr THEN 1 ELSE 0,
              intr |-> 0, fail |-> first, skip |-> 1 - first]
      ELSE [ok |-> TRUE, st |-> st1, err |-> IF showErr THEN 1 ELSE 0,
            intr |-> 0, fail |-> 0, skip |-> 0]

\* Mutant: the halted branch does not put abort_step_logged.
handleAbortsAndInterupts_HaltUnmarked(st) ==
  LET alreadyLogged == st.logged
      showErr == st.error /\ ~alreadyLogged
      st1 == IF showErr THEN [st EXCEPT !.logged = TRUE] ELSE st
      st2 == IF ~alreadyLogged THEN [st1 EXCEPT !.logged = TRUE] ELSE st1
      first == IF alreadyLogged THEN 0 ELSE 1
  IN  IF st1.cancelled
        THEN [ok |-> FALSE, st |-> st2, err |-> IF showErr THEN 1 ELSE 0,
              intr |-> first, fail |-> 0, skip |-> 1 - first]
      ELSE IF st1.halted
        THEN [ok |-> FALSE, st |-> st1, err |-> IF showErr THEN 1 ELSE 0,
              intr |-> 0, fail |-> first, skip |-> 1 - first]
      ELSE [ok |-> TRUE, st |-> st1, err |-> IF showErr THEN 1 ELSE 0,
            intr |-> 0, fail |-> 0, skip |-> 0]

\* Mutant: logging the error does not put abort_step_logged.
handleAbortsAndInterupts_ErrUnmarked(st) ==
  LET alreadyLogged == st.logged
      showErr == st.error /\ ~alreadyLogged
      st1 == st
      st2 == IF ~alreadyLogged THEN [st1 EXCEPT !.logged = TRUE] ELSE st1
      first == IF alreadyLogged THEN 0 ELSE 1
  IN  IF st1.cancelled
        THEN [ok |-> FALSE, st |-> st2, err |-> IF showErr THEN 1 ELSE 0,
              intr |-> first, fail |-> 0, skip |-> 1 - first]
      ELSE IF st1.halted
        THEN [ok |-> FALSE, st |-> st2, err |-> IF showErr THEN 1 ELSE 0,
              intr |-> 0, fail |-> first, skip |-> 1 - first]
      ELSE [ok |-> TRUE, st |-> st1, err |-> IF showErr THEN 1 ELSE 0,
            intr |-> 0, fail |-> 0, skip |-> 0]

\* Variant of handleAbortsAndInterupts: the cancelled key is removed from the
\* bag once the interrupt has been reported.
handleAbortsAndInterupts_ClearsCancelled(st) ==
  LET alreadyLogged == st.logged
      showErr == st.error /\ ~alreadyLogged
      st1 == IF showErr THEN [st EXCEPT !.logged = TRUE] ELSE st
      st2 == IF ~alreadyLogged THEN [st1 EXCEPT !.logged = TRUE] ELSE st1
      first == IF alreadyLogged THEN 0 ELSE 1
  IN  IF st1.cancelled
        THEN [ok |-> FALSE, st |-> [st2 EXCEPT !.cancelled = FALSE],
              err |-> IF showErr THEN 1 ELSE 0,
              intr |-> first, fail |-> 0, skip |-> 1 - first]
      ELSE IF st1.halted
        THEN [ok |-> FALSE, st |-> st2, err |-> IF showErr THEN 1 ELSE 0,
              intr |-> 0, fail |-> first, skip |-> 1 - first]
      ELSE [ok |-> TRUE, st |-> st1, err |-> IF showErr THEN 1 ELSE 0,
            intr |-> 0, fail |-> 0, skip |-> 0]

\* Variant of handleAbortsAndInterupts: the halted key is tested before the
\* cancelled key.
handleAbortsAndInterupts_HaltFirst(st) ==
  LET alreadyLogged == st.logged
      showErr == st.error /\ ~alreadyLogged
      st1 == IF showErr THEN [st EXCEPT !.logged = TRUE] ELSE st
      st2 == IF ~alreadyLogged THEN [st1 EXCEPT !.logged = TRUE] ELSE st1
      first == IF alreadyLogged THEN 0 ELSE 1
  IN  IF st1.halted
        THEN [ok |-> FALSE, st |-> st2, err |-> IF showErr THEN 1 ELSE 0,
              intr |-> 0, fail |-> first, skip |-> 1 - first]
      ELSE IF st1.cancelled
        THEN [ok |-> FALSE, st |-> st2, err |-> IF showErr THEN 1 ELSE 0,
              intr |-> first, fail |-> 0, skip |-> 1 - first]
      ELSE [ok |-> TRUE, st |-> st1, err |-> IF showErr THEN 1 ELSE 0,
            intr |-> 0, fail |-> 0, skip |-> 0]

\* The value returned (ok), the StateBag afterwards (st) and the number of
\* messages of each kind written to the Ui: the recorded error (err),
\* "Interrupted, aborting..." (intr), "Step %q failed, aborting..." (fail),
\* "aborted: skipping cleanup of step %q" (skip).
handleAbortsAndInterupts(st) ==
  LET alreadyLogged == st.logged
      showErr == st.error /\ ~alreadyLogged
      st1 == IF showErr THEN [st EXCEPT !.logged = TRUE] ELSE st
      st2 == IF ~alreadyLogged THEN [st1 EXCEPT !.logged = TRUE] ELSE st1
      first == IF alreadyLogged THEN 0 ELSE 1
  IN  IF st1.cancelled
        THEN [ok |-> FALSE, st |-> st2, err |-> IF showErr THEN 1 ELSE 0,
              intr |-> first, fail |-> 0, skip |-> 1 - first]
      ELSE IF st1.halted
        THEN [ok |-> FALSE, st |-> st2, err |-> IF showErr THEN 1 ELSE 0,
              intr |-> 0, fail |-> first, skip |-> 1 - first]
      ELSE [ok |-> TRUE, st |-> st1, err |-> IF showErr THEN 1 ELSE 0,
            intr |-> 0, fail |-> 0, skip |-> 0]

\* Variants of ConsultsCoordinator: every decorator consults the coordinator;
\* askStep consults it whether or not "aborted" is in the bag.
ConsultsCoordinator_Every(kind, st) == kind \in Decorators

ConsultsCoordinator_AskAlways(kind, st) == kind \in {abortStep, askStep}

\* Whether the decorator's Cleanup consults the coordinator.
\* abortStep.Cleanup always does; askStep.Cleanup when "aborted" is in the bag.
ConsultsCoordinator(kind, st) ==
  \/ kind = abortStep
  \/ kind = askStep /\ st.aborted

\* ------------------------------------------------------------ initial state
LocInit ==
  [ action |-> ActionContinue,  \* last value returned by the wrapped Run
    retries |-> 0,
    maxRetries |-> 0,
    result |-> ActionContinue,  \* what the decorated Run returned
    calls |-> 0,                \* wrapped Run calls made by this decorated Run
    allRetry |-> TRUE,          \* every one of them returned ActionRetry
    prefixRetry |-> TRUE,       \* every one before the latest returned ActionRetry
    prompts |-> 0,              \* ask() calls made by this decorated Run
    opRetries |-> 0,            \* of them, how many returned askRetry
    touched |-> FALSE,          \* steps_max_retry was changed during this Run
    resp |-> "none",            \* what ask() returned, until the next wrapped Run call
    cancelFirst |-> FALSE ]     \* "cancelled" was set before that ask()'s answer was read

GorIdle ==
  [ st |-> "idle",     \* "reading": inside ui.Ask; "sending": at result <- ...
    resp |-> "none",   \* the value askPrompt returned
    line |-> <<>>,     \* the line the last ui.Ask returned
    asks |-> 0,        \* ui.Ask calls made
    bad |-> 0,         \* "Incorrect input" notices said
    late |-> FALSE ]   \* the recognized line was read after "cancelled" was set

UiInit ==
  [ errRun |-> 0,      \* s.ui.Error(err) in askStep.Run
    errCoord |-> 0,    \* ui.Error(err) in handleAbortsAndInterupts
    stepFailed |-> 0,  \* ui.Say("Step %q failed") in ask()
    intr |-> 0, fail |-> 0,
    skip |-> [i \in StepIds |-> 0] ]

Init ==
  /\ policy \in PolicyStrings
  /\ n \in 1..MaxSteps
  /\ steps = newRunner(policy, n)
  /\ state \in [ error : {FALSE}, cancelled : {FALSE}, halted : {FALSE},
                 aborted : {FALSE}, logged : {FALSE},
                 hasRetry : BOOLEAN, retry : 0..MaxBudget ]
  /\ (~state.hasRetry => state.retry = 0)
  /\ pc = "exec"
  /\ cur = 1
  /\ cl = 0
  /\ loc = LocInit
  /\ gor = GorIdle
  /\ ui = UiInit
  /\ cleaned = [i \in StepIds |-> 0]

\* ------------------------------------------------------------ wrapped step
\* What one call of a wrapped step's Run may write to the StateBag: it may
\* record an error, and it may put steps_max_retry (the steps of one
\* decorated Run change it at most once).
BudgetWrites ==
  {[put |-> FALSE, v |-> 0]} \cup {[put |-> TRUE, v |-> k] : k \in 0..MaxBudget}

StepWrites(st, e, w) ==
  [st EXCEPT !.error = st.error \/ e,
             !.hasRetry = st.hasRetry \/ w.put,
             !.retry = IF w.put THEN w.v ELSE st.retry]

\* loc after a wrapped Run call that returned a and left the bag st1.
Counted(l, a, st1) ==
  [l EXCEPT !.action = a,
            !.resp = "none",
            !.cancelFirst = FALSE,
            !.calls = l.calls + 1,
            !.allRetry = l.allRetry /\ a = ActionRetry,
            !.prefixRetry = l.allRetry,
            !.touched = l.touched \/ MaxRetriesOf(st1) # MaxRetriesOf(state)]

\* return from the decorated Run
Return(l, a) ==
  /\ loc' = [l EXCEPT !.result = a]
  /\ pc' = "ret"

\* The code after the retry loop.  basicStep / abortStep: return ActionHalt.
\* askStep: action = ActionHalt, show the recorded error, then ask(): say
\* "Step %q failed", start the goroutine running askPrompt (which calls
\* ui.Ask at once) and enter the select.
LeaveLoop(l, st1) ==
  IF steps[cur] = askStep
    THEN /\ loc' = [l EXCEPT !.action = AfterLoop(l.action), !.prompts = l.prompts + 1]
         /\ ui' = [ui EXCEPT !.errRun = ui.errRun + (IF st1.error THEN 1 ELSE 0),
                             !.stepFailed = ui.stepFailed + 1]
         /\ gor' = [GorIdle EXCEPT !.st = "reading", !.asks = 1]
         /\ pc' = "ask"
    ELSE /\ Return(l, AfterLoop(l.action))
         /\ UNCHANGED <<ui, gor>>

\* Variant of LoopBound: the bound is looked up in the bag at each evaluation
\* of the loop condition.
LoopBound_Fresh(l, st1) == MaxRetriesOf(st1)

\* The bound in the loop condition: the local maxRetries, assigned once
\* before the loop; the bag st1 is not looked at again.
LoopBound(l, st1) == l.maxRetries

\* The loop condition, evaluated with the locals l.
LoopOrLeave(l, st1) ==
  IF ShouldRetry(l.action, l.retries, LoopBound(l, st1))
    THEN /\ loc' = l
         /\ pc' = "retry"
         /\ UNCHANGED <<ui, gor>>
    ELSE LeaveLoop(l, st1)

\* Variant of PassStart: the retries counter is carried over from the
\* previous pass.
PassStart_KeepCount(l, st1) == [l EXCEPT !.maxRetries = MaxRetriesOf(st1)]

\* The locals set between the first wrapped Run of a pass and the retry
\* loop: maxRetries from the bag, retries := 0.
PassStart(l, st1) == [l EXCEPT !.maxRetries = MaxRetriesOf(st1), !.retries = 0]

\* ------------------------------------------------------------ decorated Run
\* action := s.step.Run(ctx, state), the first call of a pass, and the code
\* up to the next call of the wrapped Run, the select of ask(), or a return.
\* An unwrapped step's Run is the wrapped Run itself.
InvokeFirst(a, e, w) ==
  /\ pc = "first"
  /\ w.put => ~loc.touched
  /\ LET st1 == StepWrites(state, e, w)
         l1 == Counted(loc, a, st1)
     IN  /\ state' = st1
         /\ IF steps[cur] = rawStep \/ a = ActionContinue
              THEN Return(l1, a) /\ UNCHANGED <<ui, gor>>
              ELSE LoopOrLeave(PassStart(l1, st1), st1)
  /\ UNCHANGED <<policy, n, steps, cur, cl, cleaned>>

\* One iteration of the retry loop: ui.Say("Retrying step: ..."), the wrapped
\* Run again, return on ActionContinue, retries++, then the loop condition.
InvokeRetry(a, e, w) ==
  /\ pc = "retry"
  /\ w.put => ~loc.touched
  /\ LET st1 == StepWrites(state, e, w)
         l1 == Counted(loc, a, st1)
     IN  /\ state' = st1
         /\ IF a = ActionContinue
              THEN Return(l1, a) /\ UNCHANGED <<ui, gor>>
              ELSE LoopOrLeave([l1 EXCEPT !.retries = l1.retries + 1], st1)
  /\ UNCHANGED <<policy, n, steps, cur, cl, cleaned>>

\* ------------------------------------------------------------ ask()
\* Variant of AskReturns: "aborted" is put on every outcome that ends the Run.
AskReturns_AbortedOnCleanup(r, late) ==
  LET l1 == [loc EXCEPT !.resp = r, !.cancelFirst = late]
  IN  CASE r \in {askCleanup, askAbort} ->
             Return(l1, l1.action) /\ state' = [state EXCEPT !.aborted = TRUE]
        [] r = askRetry -> /\ loc' = [l1 EXCEPT !.opRetries = l1.opRetries + 1]
                           /\ pc' = "first"
                           /\ state' = state

\* askStep.Run's switch on the value r returned by ask().
AskReturns(r, late) ==
  LET l1 == [loc EXCEPT !.resp = r, !.cancelFirst = late]
  IN  CASE r = askCleanup -> Return(l1, l1.action) /\ state' = state
        [] r = askAbort -> Return(l1, l1.action) /\ state' = [state EXCEPT !.aborted = TRUE]
        [] r = askRetry -> /\ loc' = [l1 EXCEPT !.opRetries = l1.opRetries + 1]
                           /\ pc' = "first"
                           /\ state' = state

\* case response := <-result: the goroutine's send completes and it exits.
AskReceive ==
  /\ pc = "ask"
  /\ gor.st = "sending"
  /\ AskReturns(gor.resp, gor.late)
  /\ gor' = GorIdle
  /\ UNCHANGED <<policy, n, steps, cur, cl, ui, cleaned>>

\* Variant of AskTick: the timer case selects again without looking at the
\* cancelled key.
AskTick_NoPoll == pc = "ask" /\ UNCHANGED vars

\* case <-time.After(100 * time.Millisecond): return askCleanup when the run
\* is cancelled, leaving the goroutine where it is; otherwise select again.
AskTick ==
  /\ pc = "ask"
  /\ IF state.cancelled
       THEN AskReturns(askCleanup, gor.st = "reading" \/ gor.late)
       ELSE UNCHANGED <<loc, pc, state>>
  /\ UNCHANGED <<policy, n, steps, cur, cl, gor, ui, cleaned>>

\* The goroutine: ui.Ask returns the operator's line; askPrompt returns its
\* outcome, which the goroutine then offers on the unbuffered channel, or
\* says "Incorrect input" and calls ui.Ask again.
GorRead(line) ==
  /\ gor.st = "reading"
  /\ LET r == askPromptOutcome(line)
     IN  /\ r = askRetry => ui.stepFailed <= MaxOpRetries
         /\ r = "none" => gor.bad < MaxBadLines
         /\ gor' = IF r = "none"
                     THEN [gor EXCEPT !.line = line, !.bad = gor.bad + 1,
                                      !.asks = gor.asks + 1]
                     ELSE [gor EXCEPT !.line = line, !.st = "sending", !.resp = r,
                                      !.late = state.cancelled]
  /\ UNCHANGED <<policy, n, steps, state, pc, cur, cl, loc, ui, cleaned>>

\* ------------------------------------------------------------ Cleanup
\* basicStep.Cleanup, abortStep.Cleanup, askStep.Cleanup, or the wrapped
\* step's own Cleanup when the step is unwrapped, for step i.
DecoratedCleanup(i) ==
  IF ConsultsCoordinator(steps[i], state)
    THEN LET r == handleAbortsAndInterupts(state)
         IN  /\ state' = r.st
             /\ ui' = [ui EXCEPT !.errCoord = ui.errCoord + r.err,
                                 !.intr = ui.intr + r.intr,
                                 !.fail = ui.fail + r.fail,
                                 !.skip[i] = ui.skip[i] + r.skip]
             /\ cleaned' = [cleaned EXCEPT ![i] = cleaned[i] + (IF r.ok THEN 1 ELSE 0)]
    ELSE /\ cleaned' = [cleaned EXCEPT ![i] = cleaned[i] + 1]
         /\ UNCHANGED <<state, ui>>

\* ------------------------------------------------------------ executor
\* The sequential executor: run the steps in order, stop at the first
\* ActionHalt and record it under the halted key, then call Cleanup on every
\* step that was started, last started first.
ExecStart ==
  /\ pc = "exec"
  /\ IF cur <= n
       THEN /\ pc' = "first"
            /\ loc' = LocInit
            /\ cl' = cl
       ELSE /\ pc' = "cleanup"
            /\ cl' = n
            /\ loc' = loc
  /\ UNCHANGED <<policy, n, steps, state, cur, gor, ui, cleaned>>

ExecAfterRun ==
  /\ pc = "ret"
  /\ IF loc.result = ActionHalt
       THEN /\ state' = [state EXCEPT !.halted = TRUE]
            /\ pc' = "cleanup"
            /\ cl' = cur
            /\ cur' = cur
       ELSE /\ cur' = cur + 1
            /\ pc' = "exec"
            /\ UNCHANGED <<state, cl>>
  /\ loc' = LocInit
  /\ UNCHANGED <<policy, n, steps, gor, ui, cleaned>>

ExecCleanup ==
  /\ pc = "cleanup"
  /\ IF cl >= 1
       THEN /\ DecoratedCleanup(cl)
            /\ cl' = cl - 1
            /\ pc' = pc
       ELSE /\ pc' = "done"
            /\ UNCHANGED <<state, ui, cleaned, cl>>
  /\ UNCHANGED <<policy, n, steps, cur, loc, gor>>

\* The external interrupt: the cancelled key is put while the run goes on.
Cancel ==
  /\ pc # "done"
  /\ ~state.cancelled
  /\ state' = [state EXCEPT !.cancelled = TRUE]
  /\ UNCHANGED <<policy, n, steps, pc, cur, cl, loc, gor, ui, cleaned>>

Next ==
  \/ \E a \in Actions, e \in BOOLEAN, w \in BudgetWrites : InvokeFirst(a, e, w)
  \/ \E a \in Actions, e \in BOOLEAN, w \in BudgetWrites : InvokeRetry(a, e, w)
  \/ AskReceive
  \/ AskTick
  \/ \E line \in Answers : GorRead(line)
  \/ ExecStart
  \/ ExecAfterRun
  \/ ExecCleanup
  \/ Cancel

Spec == Init /\ [][Next]_vars

TypeOK ==
  /\ policy \in PolicyStrings
  /\ n \in 1..MaxSteps
  /\ pc \in {"exec", "first", "retry", "ask", "ret", "cleanup", "done"}
  /\ loc.action \in Actions /\ loc.result \in Actions
  /\ gor.st \in {"idle", "reading", "sending"}
  /\ (pc = "ask" => gor.st # "idle")

\* ------------------------------------------------------------ askPrompt alone
\* One prompt: ask() has just started its goroutine for the first step of an
\* Ask-policy run, and the operator types lines until one is recognized.
InitPrompt ==
  /\ policy = "ask"
  /\ n \in 1..MaxSteps
  /\ steps = newRunner(policy, n)
  /\ state = [ error |-> TRUE, cancelled |-> FALSE, halted |-> FALSE,
               aborted |-> FALSE, logged |-> FALSE, hasRetry |-> FALSE, retry |-> 0 ]
  /\ pc = "ask"
  /\ cur = 1
  /\ cl = 0
  /\ loc = [LocInit EXCEPT !.action = ActionHalt, !.calls = 1, !.allRetry = FALSE,
                           !.prompts = 1]
  /\ gor = [GorIdle EXCEPT !.st = "reading", !.asks = 1]
  /\ ui = [UiInit EXCEPT !.errRun = 1, !.stepFailed = 1]
  /\ cleaned = [i \in StepIds |-> 0]

NextPrompt == \E line \in Lines : GorRead(line)

SpecPrompt == InitPrompt /\ [][NextPrompt]_vars

\* ------------------------------------------------------------ ask() alone
\* One call of ask(), from the start of its goroutine to its return, with the
\* interrupt arriving at any moment.  Each pass through the select starts a
\* new 100 ms timer, which fires unless the result channel is taken first,
\* and a select with a sender ready on the result channel proceeds: both are
\* weakly fair.  Nothing is assumed about the operator: ui.Ask may never
\* return.
NextArbiter ==
  \/ \E line \in Lines : GorRead(line)
  \/ AskReceive
  \/ AskTick
  \/ Cancel

SpecArbiter ==
  InitPrompt /\ [][NextArbiter]_vars /\ WF_vars(AskTick) /\ WF_vars(AskReceive)

\* ------------------------------------------------------------ Cleanup alone
\* The Cleanup calls of a run whose n steps have all been started, from every
\* content the StateBag can have at that point: the bag is shared with the
\* steps and the caller, which may have put any of the keys.
InitCleanup ==
  /\ policy \in PolicyStrings
  /\ n \in 1..MaxSteps
  /\ steps = newRunner(policy, n)
  /\ state \in [ error : BOOLEAN, cancelled : BOOLEAN, halted : BOOLEAN,
                 aborted : BOOLEAN, logged : BOOLEAN,
                 hasRetry : {FALSE}, retry : {0} ]
  /\ pc = "cleanup"
  /\ cur = IF state.halted THEN n ELSE n + 1
  /\ cl = n
  /\ loc = LocInit
  /\ gor = GorIdle
  /\ ui = UiInit
  /\ cleaned = [i \in StepIds |-> 0]

NextCleanup == ExecCleanup

SpecCleanup == InitCleanup /\ [][NextCleanup]_vars

\* ------------------------------------------------------------ properties
\* The decorated Run of the current step is that of one of the decorators.
Decorated == cur \in 1..n /\ steps[cur] \in Decorators

\* The run is one in which Cleanup goes through the cleanup coordinator.
AbortingRun == policy = "abort" \/ (policy = "ask" /\ state.aborted)

\* Skip notices emitted so far, over all steps.
RECURSIVE SkipUpTo(_)
SkipUpTo(k) == IF k = 0 THEN 0 ELSE ui.skip[k] + SkipUpTo(k - 1)

SkipTotal == SkipUpTo(MaxSteps)

\* C1: with steps_max_retry = N unchanged during the call (absent: 0) and
\* a wrapped Run that returned ActionRetry every time, a decorated Run that
\* has returned (Ask: without an operator retry) made exactly N+1 calls of
\* the wrapped Run and returned ActionHalt.
C1_RetryBound ==
  (pc = "ret" /\ Decorated /\ loc.allRetry /\ ~loc.touched /\ loc.opRetries = 0)
    => (loc.calls = MaxRetriesOf(state) + 1 /\ loc.result = ActionHalt)

C1_Witness ==
  /\ pc = "ret" /\ steps[cur] = askStep /\ loc.allRetry /\ ~loc.touched
  /\ loc.calls = 3 /\ loc.result = ActionHalt /\ loc.resp = askAbort

\* C2: with steps_max_retry = N unchanged during the call: after k <= N
\* calls of the wrapped Run that all returned ActionRetry the decorated Run
\* is about to call it again and has not prompted; and when the call after
\* k <= N ActionRetry results returned ActionContinue, the decorated Run has
\* returned ActionContinue after these k+1 calls without any prompt.
C2_RetrySuccess ==
  /\ (Decorated /\ loc.calls >= 1 /\ loc.allRetry /\ ~loc.touched
        /\ loc.calls <= MaxRetriesOf(state))
       => (pc = "retry" /\ loc.prompts = 0)
  /\ (Decorated /\ loc.calls >= 1 /\ loc.prefixRetry /\ loc.action = ActionContinue
        /\ ~loc.touched /\ loc.calls - 1 <= MaxRetriesOf(state))
       => (pc = "ret" /\ loc.result = ActionContinue /\ loc.prompts = 0
             /\ loc.opRetries = 0)

C2_Witness ==
  /\ pc = "ret" /\ steps[cur] = askStep /\ loc.prefixRetry /\ ~loc.touched
  /\ loc.calls = 3 /\ loc.result = ActionContinue /\ loc.prompts = 0

\* C3: when "cancelled" was set before the operator's answer was read, ask()
\* returns askCleanup, and askStep.Run returns ActionHalt without putting
\* "aborted" and without running the step again.
C3_CancelledPromptIsCleanup ==
  (loc.resp # "none" /\ loc.cancelFirst)
    => (loc.resp = askCleanup /\ pc = "ret" /\ loc.result = ActionHalt
          /\ ~state.aborted)

\* C4 (as claimed): under the Abort policy, and under Ask after an abort
\* answer, once the run is halted and the deferred Cleanup calls are over,
\* the wrapped Cleanup of the step that failed has been invoked once.
C4_FailingStepCleaned ==
  (pc = "done" /\ AbortingRun /\ state.halted) => cleaned[cur] = 1

\* C4 (amended): under the Abort policy, and under Ask after an abort answer,
\* once the executor has recorded the halt, the wrapped Cleanup of no step is
\* invoked, that of the step that failed included: the coordinator returns
\* false for every step, and says so once per step.
C4_NoStepCleaned ==
  (pc \in {"cleanup", "done"} /\ AbortingRun /\ state.halted)
    => /\ \A i \in StepIds : cleaned[i] = 0
       /\ \A i \in (cl + 1)..cur : ui.skip[i] + (IF i = cur THEN ui.intr + ui.fail ELSE 0) = 1

C4_Witness ==
  /\ pc = "done" /\ policy = "abort" /\ state.halted /\ cur = 3
  /\ \A i \in StepIds : cleaned[i] = 0
  /\ ui.fail = 1

\* C5: a decorated Run returns ActionContinue or ActionHalt, never
\* ActionRetry: ActionContinue only when the last wrapped call returned it,
\* ActionHalt when every wrapped call returned ActionRetry.
C5_NeverReturnsRetry ==
  (pc = "ret" /\ Decorated)
    => /\ loc.result \in {ActionContinue, ActionHalt}
       /\ (loc.result = ActionContinue => loc.action = ActionContinue)
       /\ (loc.allRetry => loc.result = ActionHalt)

C5_Witness ==
  /\ pc = "ret" /\ steps[cur] = basicStep /\ loc.allRetry /\ loc.calls = 2
  /\ loc.action = ActionRetry /\ loc.result = ActionHalt

\* C6: every policy string other than "abort" and "ask" - "", "cleanup" and
\* any unrecognized one - gives a pipeline that behaves as one whose steps
\* are all wrapped in basicStep: the automatic retry is applied and no step
\* returns ActionRetry to the executor.
C6_DefaultsToBasic ==
  (policy \notin {"abort", "ask"} /\ pc = "ret")
    => /\ loc.result # ActionRetry
       /\ (loc.allRetry /\ ~loc.touched => loc.calls = MaxRetriesOf(state) + 1)

\* C7: when the second step halted the run under the Abort policy or under
\* Ask after an abort answer, the Cleanup calls emit exactly one "aborting"
\* notice (interrupt or failure) and at most one skip notice.
C7_TwoStepDedup ==
  (AbortingRun /\ state.halted /\ cur = 2)
    => /\ (pc \in {"cleanup", "done"} => ui.intr + ui.fail <= 1 /\ SkipTotal <= 1)
       /\ (pc = "done" => ui.intr + ui.fail = 1)

C7_Witness ==
  /\ pc = "done" /\ policy = "ask" /\ state.aborted /\ state.halted /\ cur = 2
  /\ state.error /\ ui.fail = 1 /\ ui.skip[1] = 1

\* C8 (as claimed): the failure notice, the interrupt notice and the skip
\* notice are each emitted at most once per run.
C8_EachNoticeOnce ==
  ui.fail <= 1 /\ ui.intr <= 1 /\ SkipTotal <= 1

\* C8 (amended): the failure notice and the interrupt notice are emitted at
\* most once per run, and never both; the skip notice is emitted at most
\* once per step, after abort_step_logged was put.
C8_NoticesOncePerStep ==
  /\ ui.fail + ui.intr <= 1
  /\ \A i \in StepIds : ui.skip[i] <= 1
  /\ (SkipTotal + ui.fail + ui.intr > 0 => state.logged)

C8_Witness ==
  /\ pc = "done" /\ ui.fail = 1 /\ ui.skip[1] = 1 /\ ui.skip[2] = 1

\* C9 (as claimed): the recorded error is shown at most once per run,
\* counting askStep.Run and the cleanup coordinator.
C9_ErrorShownOnce == ui.errRun + ui.errCoord <= 1

\* C9 (amended): the cleanup coordinator shows the recorded error at most
\* once per run; askStep.Run shows it at most once per prompt, and nothing
\* else shows it; after an abort answer the coordinator shows an error that
\* askStep.Run has shown already.
C9_ErrorOncePerPrompt ==
  /\ ui.errCoord <= 1
  /\ (ui.errCoord = 1 => state.logged /\ state.error)
  /\ ui.errRun <= ui.stepFailed
  /\ (policy # "ask" => ui.errRun = 0)
  /\ (pc = "done" /\ policy = "ask" /\ state.aborted /\ state.error) => ui.errCoord = 1

C9_Witness ==
  /\ pc = "done" /\ policy = "ask" /\ ui.errRun = 2 /\ ui.errCoord = 1

\* C10: the goroutine has an outcome exactly for a line whose first byte is
\* c, C (or that is empty), a, A, r or R - askCleanup, askAbort, askRetry in
\* this order - and each other line was answered by one "Incorrect input"
\* notice and one more call of ui.Ask.
LineStartsWith(line, set) == line # <<>> /\ line[1] \in set

C10_PromptParsing ==
  /\ gor.st = "sending" =>
       /\ (gor.line = <<>> \/ LineStartsWith(gor.line, {"c", "C"})) => gor.resp = askCleanup
       /\ LineStartsWith(gor.line, {"a", "A"}) => gor.resp = askAbort
       /\ LineStartsWith(gor.line, {"r", "R"}) => gor.resp = askRetry
       /\ gor.line = <<>> \/ LineStartsWith(gor.line, {"c", "C", "a", "A", "r", "R"})
  /\ (gor.st = "reading" /\ gor.bad > 0) => LineStartsWith(gor.line, {"x", "X"})
  /\ gor.st # "idle" => gor.asks = gor.bad + 1

C10_Witness ==
  /\ gor.st = "sending" /\ gor.line = <<"R", "x">> /\ gor.resp = askRetry
  /\ gor.bad = 1 /\ gor.asks = 2

\* The step of ExecCleanup that calls the Cleanup of step cl.
CleanupCall == pc = "cleanup" /\ cl >= 1

\* That step called the wrapped Cleanup of step cl once.
WrappedCleanupRan == cleaned' = [cleaned EXCEPT ![cl] = cleaned[cl] + 1]

\* C11: under the Basic policy ("" or "cleanup") every Cleanup call calls the
\* wrapped Cleanup exactly once, whatever cancelled, halted, aborted, error
\* and abort_step_logged are, writes nothing to the Ui and leaves the
\* StateBag as it was.
C11_BasicCleanupUnconditional ==
  [][(CleanupCall /\ steps[cl] = basicStep)
       => (WrappedCleanupRan /\ ui' = ui /\ state' = state)]_vars

C11_Witness ==
  /\ pc = "done" /\ policy = "cleanup" /\ n = 2
  /\ state.cancelled /\ state.halted /\ state.aborted /\ state.error /\ state.logged
  /\ cleaned[1] = 1 /\ cleaned[2] = 1 /\ ui = UiInit

\* C12: askStep.Cleanup goes through the coordinator only when "aborted" is
\* in the bag.  Without it the wrapped Cleanup is called, nothing is written
\* to the Ui and the bag is left alone, also when cancelled or halted is set.
\* With it the wrapped Cleanup is called in exactly the states in which
\* abortStep.Cleanup calls it: those with neither cancelled nor halted.
C12_AskCleanupOnlyWhenAborted ==
  [][/\ (CleanupCall /\ steps[cl] = askStep /\ ~state.aborted)
          => (WrappedCleanupRan /\ ui' = ui /\ state' = state)
     /\ (CleanupCall /\ (steps[cl] = abortStep \/ (steps[cl] = askStep /\ state.aborted)))
          => (WrappedCleanupRan <=> ~(state.cancelled \/ state.halted))]_vars

C12_Witness ==
  /\ pc = "done" /\ policy = "ask" /\ n = 2
  /\ ~state.aborted /\ state.cancelled /\ state.halted /\ state.error /\ ~state.logged
  /\ cleaned[1] = 1 /\ cleaned[2] = 1 /\ ui = UiInit

\* C13: the goroutine started by ask() is never left blocked: once askPrompt
\* has returned, its send on the result channel completes.  The channel is
\* unbuffered and local to that ask() call, so the send completes only while
\* ask() is still in its select: a goroutine at its send after ask() has
\* returned stays there for the rest of the process.
C13_PromptTaskTerminates == gor.st = "sending" => pc = "ask"

\* C14 as stated: at every decision to retry, retries is below the value
\* steps_max_retry has in the bag at that moment.
C14_BoundReadEachDecision ==
  (Decorated /\ pc = "retry") => loc.retries < MaxRetriesOf(state)

\* C14: the bound is read once per pass, after the first wrapped Run of the
\* pass has returned ActionRetry or ActionHalt, and that value decides every
\* iteration of the pass: right after the first call it is the bag's value
\* (a change made by that call included), every decision to retry has
\* retries below it, and a pass of ActionRetry results only ends after that
\* value + 1 calls, whatever the wrapped step has put in the bag since.
C14_BoundReadOncePerPass ==
  /\ (Decorated /\ pc = "retry")
       => /\ loc.retries < loc.maxRetries
          /\ loc.retries = 0 => loc.maxRetries = MaxRetriesOf(state)
  /\ (Decorated /\ pc \in {"ask", "ret"} /\ loc.allRetry /\ loc.opRetries = 0)
       => loc.calls = loc.maxRetries + 1

C14_Witness ==
  /\ Decorated /\ pc = "retry" /\ loc.touched /\ loc.retries = 1
  /\ loc.maxRetries = 2 /\ MaxRetriesOf(state) = 0

\* C15: handleAbortsAndInterupts returns false exactly when cancelled or
\* halted is in the bag, whatever error, aborted and abort_step_logged are:
\* in a run whose Cleanup goes through it, the wrapped Cleanup of every step
\* evaluated so far ran once if neither flag is set and not at all otherwise.
\* With both flags set every call takes the interrupt branch: it says
\* "Interrupted, aborting..." or the skip notice, never "Step failed, aborting".
C15_CoordinatorDecision ==
  (AbortingRun /\ pc \in {"cleanup", "done"})
    => /\ \A i \in (cl + 1)..n :
            cleaned[i] = IF state.cancelled \/ state.halted THEN 0 ELSE 1
       /\ (state.cancelled /\ state.halted)
            => (ui.fail = 0 /\ ui.intr + SkipTotal = n - cl)

C15_Witness ==
  /\ policy = "abort" /\ pc = "done" /\ n = 3
  /\ state.cancelled /\ state.halted /\ state.error /\ state.aborted
  /\ ui.intr = 1 /\ SkipTotal = 2 /\ ui.fail = 0
  /\ \A i \in 1..n : cleaned[i] = 0

\* C16: in a run that is cancelled and was never halted, the first
\* coordinator call that finds cancelled says "Interrupted, aborting..." and
\* only the calls after it say the skip notice: so whenever a skip notice has
\* been said, "Interrupted, aborting..." was said once before it, also when
\* an earlier call, made before the cancellation, has shown the recorded
\* error and put abort_step_logged.
C16_FirstCancelledCallInterrupts ==
  (state.cancelled /\ ~state.halted /\ SkipTotal > 0) => ui.intr = 1

\* C17: a call of ask() that is waiting while cancelled is set returns, and
\* so does one whose goroutine has an answer to deliver; if it has returned
\* while the operator's read is still pending, it returned askCleanup.  So it
\* can wait forever only if the cancellation never comes and the operator
\* never answers.
C17_CancelledPromptReturns ==
  /\ (pc = "ask" /\ state.cancelled) ~> (pc # "ask")
  /\ (pc = "ask" /\ gor.st = "sending") ~> (pc # "ask")
  /\ []((pc # "ask" /\ gor.st = "reading") => loc.resp = askCleanup)

C17_Witness ==
  /\ pc = "ret" /\ state.cancelled /\ gor.st = "reading" /\ gor.bad = 1
  /\ loc.resp = askCleanup /\ loc.result = ActionHalt /\ ~state.aborted

\* C18: under the Ask policy every pass starts with retries = 0.  With
\* steps_max_retry = N unchanged during the call and a wrapped Run that
\* returns ActionRetry every time, a decorated Run in which the operator has
\* answered retry m times so far has called the wrapped Run (m+1)*(N+1)
\* times and prompted m+1 times whenever it is prompting or has returned,
\* and it returns ActionHalt.
C18_OperatorRetryFreshBudget ==
  (Decorated /\ steps[cur] = askStep /\ pc \in {"ask", "ret"}
     /\ loc.allRetry /\ ~loc.touched)
    => /\ loc.calls = (loc.opRetries + 1) * (MaxRetriesOf(state) + 1)
       /\ loc.prompts = loc.opRetries + 1
       /\ pc = "ret" => loc.result = ActionHalt

C18_Witness ==
  /\ pc = "ret" /\ steps[cur] = askStep /\ loc.allRetry /\ ~loc.touched
  /\ MaxRetriesOf(state) = 2 /\ loc.opRetries = 1
  /\ loc.calls = 6 /\ loc.prompts = 2 /\ loc.resp = askCleanup

\* C19: askStep.Run puts "aborted" only when ask() returned askAbort.  A Run
\* that returned after askAbort returned ActionHalt with "aborted" in the
\* bag; one that returned after askCleanup (typed by the operator or forced
\* by the cancellation) returned ActionHalt and left "aborted" absent; one
\* that returned ActionContinue left it absent.  So "aborted" is in the bag
\* only in an Ask run that has prompted, from the return of the Run whose
\* prompt was answered abort onwards.
C19_AbortedOnlyOnAbort ==
  /\ (pc = "ret" /\ loc.resp = askAbort)
       => (state.aborted /\ loc.result = ActionHalt)
  /\ (pc = "ret" /\ loc.resp = askCleanup)
       => (~state.aborted /\ loc.result = ActionHalt)
  /\ (pc = "ret" /\ loc.result = ActionContinue) => ~state.aborted
  /\ state.aborted
       => /\ policy = "ask" /\ ui.stepFailed >= 1
          /\ pc \in {"ret", "cleanup", "done"}
          /\ pc = "ret" => loc.resp = askAbort

C19_Witness ==
  /\ pc = "ret" /\ steps[cur] = askStep /\ loc.resp = askAbort /\ loc.opRetries = 1
  /\ state.aborted /\ state.cancelled /\ loc.result = ActionHalt

\* C20: over the decorated Run and Cleanup calls of a run no step removes or
\* resets abort_step_logged or "aborted" once it is in the bag, and the
\* cancelled and halted keys keep their value in every step of the core:
\* they change only in the interrupt (Cancel) and when the executor records
\* an ActionHalt (ExecAfterRun).
C20_FlagsMonotonic ==
  [][/\ state.logged => state'.logged
     /\ state.aborted => state'.aborted
     /\ ~(Cancel \/ ExecAfterRun)
          => (state'.cancelled = state.cancelled /\ state'.halted = state.halted)]_vars

C20_Witness ==
  /\ pc = "done" /\ n = 2
  /\ state.logged /\ state.aborted /\ state.cancelled /\ state.halted
  /\ ui.fail = 1 /\ SkipTotal = 1

========================================================================
